---- MODULE Spec2Model ----
(***************************************************************************)
(* Model of the subtitle indexing engine of immersion-whisper:             *)
(*   core/sub_processor.py  (SubtitleProcessor, process_subtitles)         *)
(*   database/models.py     (Subtitle, Lemma, SubtitleLemma, db)           *)
(*   database/setup.py      (create_triggers, reset_db)                    *)
(*                                                                         *)
(* The store is the SQLite file behind the peewee handle `db`.  It outlives*)
(* the process, so the process starts on whatever the file holds:          *)
(* no tables at all, empty tables, or rows written before the process      *)
(* started (load_cache_if_needed "assum[es] the database and tables        *)
(* already exist" and hydrates the cache from the rows it finds).          *)
(*                                                                         *)
(* Units: offsets handed to add are in tenths of a millisecond (ticks),    *)
(* the buffer holds them rounded to milliseconds (round(x, 3) on seconds), *)
(* the Subtitle table holds whole seconds (IntegerField adapts with int()).*)
(***************************************************************************)
EXTENDS Integers, Sequences, FiniteSets, TLC

VARIABLES
    subtitles_data,   \* SubtitleProcessor.subtitles_data: the accumulator buffer
    lemma_cache,      \* SubtitleProcessor.lemma_cache: [loaded, ids]; loaded = FALSE is None
    store,            \* the database as the process's connection sees it
    snapshot,         \* the database as it was when db.atomic() was entered
    connOpen,         \* not db.is_closed()
    pc,               \* position inside SubtitleProcessor.process
    df,               \* the DataFrame of the running flush: rows [seg, lemmas, subtitle_id]
    rels_df,          \* the exploded relation frame of the running flush
    hist              \* observation record of the last operation (not program state)

vars == <<subtitles_data, lemma_cache, store, snapshot, connOpen, pc, df, rels_df, hist>>

----------------------------------------------------------------------------
(* Bounds of the model *)

MaxBuf == 2          \* longest accumulator buffer explored
MaxRows == 4         \* most Subtitle rows the store may reach
MaxSource == 1       \* most blocks in a source file handed to process_subtitles

(* Representation of SQL NULL / Python None in id-valued and text columns *)
NULL == 0
NoText == "NULL"

----------------------------------------------------------------------------
(* Input domains *)

Texts == {"le", "chat", "chat chien", "chat chat"}
Episodes == {1}
StartTicks == {0, 5004}       \* 0 s and 0.5004 s
EndTicks == {10000}           \* 1 s
LemmaTexts == {"chat", "chien"}

(* lemmatize_batch for one text: the spaCy pipeline is external; this is   *)
(* its result on the texts of the model (stop word "le" dropped, tokens     *)
(* lower-cased, one output entry per remaining token, repeats kept).        *)
Lemmatize(text) ==
    CASE text = "le" -> <<>>
      [] text = "chat" -> <<"chat">>
      [] text = "chat chien" -> <<"chat", "chien">>
      [] text = "chat chat" -> <<"chat", "chat">>

lemmatize_batch(texts) == [i \in 1..Len(texts) |-> Lemmatize(texts[i])]

(* round(x, 3) of an offset in seconds: ticks -> whole milliseconds *)
Round3(ticks) == (ticks + 5) \div 10

(* IntegerField.adapt = int(value): milliseconds -> whole seconds, truncated *)
IntegerFieldAdapt(ms) == ms \div 1000

----------------------------------------------------------------------------
(* Helpers on sets and sequences *)

Range(s) == {s[i] : i \in 1..Len(s)}

MaxOf(S) == CHOOSE m \in S : \A x \in S : x <= m

(* AutoField on SQLite is INTEGER PRIMARY KEY: the next rowid is max+1 *)
NextId(rows) == IF rows = {} THEN 1 ELSE MaxOf({r.id : r \in rows}) + 1

RECURSIVE Flatten(_)
Flatten(ss) == IF ss = <<>> THEN <<>> ELSE ss[1] \o Flatten(Tail(ss))

----------------------------------------------------------------------------
(* The store *)

NoSchema == [schema |-> FALSE, triggers |-> FALSE,
             subtitle |-> {}, lemma |-> {}, subtitlelemma |-> {}]

EmptyStore == [schema |-> TRUE, triggers |-> TRUE,
               subtitle |-> {}, lemma |-> {}, subtitlelemma |-> {}]

(* Lemma rows present, nothing indexed yet *)
LemmaOnlyStore ==
    [EmptyStore EXCEPT
        !.lemma = {[id |-> 1, text |-> "chat", frequency |-> 0,
                    definition |-> "cat", card_subtitle |-> NULL],
                   [id |-> 2, text |-> "chien", frequency |-> 0,
                    definition |-> "dog", card_subtitle |-> NULL]}]

(* One indexed subtitle "chat chien" of episode 1, 0 s .. 1 s *)
IndexedStore ==
    [EmptyStore EXCEPT
        !.subtitle = {[id |-> 1, text |-> "chat chien", episode_number |-> 1,
                       starts_at |-> 0, ends_at |-> 1]},
        !.lemma = {[id |-> 1, text |-> "chat", frequency |-> 1,
                    definition |-> "cat", card_subtitle |-> 1],
                   [id |-> 2, text |-> "chien", frequency |-> 1,
                    definition |-> "dog", card_subtitle |-> 1]},
        !.subtitlelemma = {[subtitle |-> 1, lemma |-> 1],
                           [subtitle |-> 1, lemma |-> 2]}]

InitStores == {NoSchema, EmptyStore, LemmaOnlyStore, IndexedStore}

NoCache == [loaded |-> FALSE, ids |-> <<>>]

(* hist: what the last public operation was and how it ended.              *)
(*   op        "start", "add", "reset", "flush" or "process_subtitles"      *)
(*   outcome   "none" (running or not a flush), "returned" or "raised"      *)
(*   failedAt  the step that raised: "load", "lemmas", "relations", "cards" *)
(*   preStore  the store when process() was entered                         *)
(*   preCache  the cache when the commit sequence was entered               *)
(*   batch     the buffer process() worked on                               *)
(*   source    the segments process_subtitles parsed (buffer form)          *)
(*   resets    length of the current run of reset() calls, capped at 2      *)
(*   seen      every lemma text the lemmatizer has produced so far          *)
(*   entryCache the cache when process() was entered, before any load       *)
(*   lemmatized whether process() called the lemmatizer                     *)
(*   frame     the DataFrame as process() left it (with its subtitle ids)   *)
(*   loads     how often the cache was hydrated from the Lemma table (the   *)
(*             count stops at 2)                                            *)
(*   prev      the batch of the committed flush that came right before the  *)
(*             add calls leading to this flush, kept while those add calls  *)
(*             repeat that batch segment by segment, <<>> otherwise         *)
NoHist == [op |-> "start", outcome |-> "none", failedAt |-> "none",
           preStore |-> NoSchema, preCache |-> NoCache, batch |-> <<>>,
           source |-> <<>>, resets |-> 0, seen |-> {},
           entryCache |-> NoCache, lemmatized |-> FALSE, frame |-> <<>>,
           loads |-> 0, prev |-> <<>>]

(* What an operation's record keeps of the process's past *)
Carried == [NoHist EXCEPT !.seen = hist.seen, !.loads = hist.loads]

Init ==
    /\ subtitles_data = <<>>
    /\ lemma_cache = NoCache
    /\ store \in InitStores
    /\ snapshot = store
    /\ connOpen = FALSE
    /\ pc = "idle"
    /\ df = <<>>
    /\ rels_df = <<>>
    /\ hist = NoHist

----------------------------------------------------------------------------
(* SubtitleProcessor.add, reached through process_subtitle *)

Segment(text, episode, start, end) ==
    [text |-> text, episode_number |-> episode,
     starts_at |-> Round3(start), ends_at |-> Round3(end)]

Add(text, episode, start, end) ==
    /\ pc = "idle"
    /\ Len(subtitles_data) < MaxBuf
    /\ Cardinality(store.subtitle) + Len(subtitles_data) < MaxRows
    /\ subtitles_data' = Append(subtitles_data, Segment(text, episode, start, end))
    /\ LET last == IF hist.op \in {"flush", "process_subtitles"}
                      /\ hist.outcome = "returned"
                   THEN hist.batch
                   ELSE IF hist.op = "add" THEN hist.prev ELSE <<>>
           buf == subtitles_data'
       IN hist' = [Carried EXCEPT
                      !.op = "add",
                      !.prev = IF Len(buf) <= Len(last) /\ buf = SubSeq(last, 1, Len(buf))
                               THEN last ELSE <<>>]
    /\ UNCHANGED <<lemma_cache, store, snapshot, connOpen, pc, df, rels_df>>

----------------------------------------------------------------------------
(* database/setup.py *)

(* db.drop_tables([...], safe=True): dropping subtitlelemma drops its triggers *)
drop_tables(st) == NoSchema

(* db.create_tables([...], safe=True): CREATE TABLE IF NOT EXISTS *)
create_tables(st) == [st EXCEPT !.schema = TRUE]

(* CREATE TRIGGER IF NOT EXISTS increment_frequency / decrease_frequency *)
create_triggers(st) == [st EXCEPT !.triggers = TRUE]

setup_database_elements(st) == create_triggers(create_tables(st))

(* reset_db: db.connect() raises OperationalError when the connection is    *)
(* already open; the except clause prints it and the drop and the setup are *)
(* skipped; the finally clause closes the connection either way.            *)
reset_db(st, conn) ==
    IF conn
    THEN [store |-> st, connOpen |-> FALSE]
    ELSE [store |-> setup_database_elements(drop_tables(st)), connOpen |-> FALSE]

ResetDb ==
    /\ pc = "idle"
    /\ LET r == reset_db(store, connOpen) IN
        /\ store' = r.store
        /\ snapshot' = r.store
        /\ connOpen' = r.connOpen
    /\ hist' = [Carried EXCEPT !.op = "reset",
                               !.resets = IF hist.op = "reset" THEN 2 ELSE 1]
    /\ UNCHANGED <<subtitles_data, lemma_cache, pc, df, rels_df>>

----------------------------------------------------------------------------
(* SubtitleProcessor.process, entry: lines 110-122 *)

(* LoadCache keyed by enumeration index instead of the row's id *)
LoadCache_by_index(st) ==
    [loaded |-> TRUE,
     ids |-> [t \in {l.text : l \in st.lemma} |->
                 (CHOOSE l \in st.lemma : l.text = t).id - 1]]

(* load_cache_if_needed's comprehension {lemma.text: lemma.id for ...} *)
LoadCache(st) ==
    [loaded |-> TRUE,
     ids |-> [t \in {l.text : l \in st.lemma} |->
                 (CHOOSE l \in st.lemma : l.text = t).id]]

(* load_cache_if_needed that swallows the error and goes on with an empty  *)
(* cache                                                                   *)
load_cache_if_needed_fallback(cache, st) ==
    IF cache.loaded
    THEN [raised |-> FALSE, queried |-> FALSE, cache |-> cache]
    ELSE IF st.schema
    THEN [raised |-> FALSE, queried |-> TRUE, cache |-> LoadCache(st)]
    ELSE [raised |-> FALSE, queried |-> TRUE, cache |-> [loaded |-> TRUE, ids |-> <<>>]]

(* load_cache_if_needed that queries the Lemma table on every call *)
load_cache_if_needed_always(cache, st) ==
    IF st.schema
    THEN [raised |-> FALSE, queried |-> TRUE, cache |-> LoadCache(st)]
    ELSE [raised |-> TRUE, queried |-> TRUE, cache |-> cache]

(* load_cache_if_needed: nothing when the cache is not None; otherwise the *)
(* select fills it, or raises when there is no lemma table (the error is   *)
(* logged and re-raised, the cache stays None). queried: the select was    *)
(* sent, which opens the connection (autoconnect).                         *)
load_cache_if_needed(cache, st) ==
    IF cache.loaded
    THEN [raised |-> FALSE, queried |-> FALSE, cache |-> cache]
    ELSE IF st.schema
    THEN [raised |-> FALSE, queried |-> TRUE, cache |-> LoadCache(st)]
    ELSE [raised |-> TRUE, queried |-> TRUE, cache |-> cache]

(* returns_early that lets an empty buffer through *)
returns_early_never(buf, cache) == ~cache.loaded

(* Line 115: if not self.subtitles_data or self.lemma_cache is None *)
returns_early(buf, cache) == buf = <<>> \/ ~cache.loaded

(* The DataFrame built from the buffer, with its lemmas column *)
MakeDf(buf) ==
    LET lem == lemmatize_batch([i \in 1..Len(buf) |-> buf[i].text]) IN
    [i \in 1..Len(buf) |-> [seg |-> buf[i], lemmas |-> lem[i], subtitle_id |-> NULL]]

(* set(exploded_df['lemmas']) *)
all_lemmas_in_batch(frame) == UNION {Range(frame[i].lemmas) : i \in 1..Len(frame)}

(* process() is entered with buffer buf on store st and connection state    *)
(* conn, as part of public operation op.                                    *)
(*  - cache None and no lemma table: the select raises, the error is logged *)
(*    and re-raised before the try block, so the buffer is not cleared; the *)
(*    query has opened the connection (autoconnect).                        *)
(*  - empty buffer: return.                                                 *)
(*  - else: build the frame, lemmatize, enter db.atomic().                  *)
ProcessEnter(op, buf, st, conn, src) ==
    LET ld == load_cache_if_needed(lemma_cache, st)
        h == [Carried EXCEPT !.op = op, !.source = src, !.preStore = st, !.batch = buf,
                             !.entryCache = lemma_cache,
                             !.prev = IF op = "flush" /\ hist.op = "add"
                                      THEN hist.prev ELSE <<>>,
                             !.loads = IF ld.queried /\ ~ld.raised /\ hist.loads < 2
                                       THEN hist.loads + 1 ELSE hist.loads]
    IN
    IF ld.raised
    THEN /\ lemma_cache' = ld.cache
         /\ connOpen' = TRUE
         /\ subtitles_data' = buf
         /\ store' = st
         /\ snapshot' = st
         /\ hist' = [h EXCEPT !.outcome = "raised", !.failedAt = "load"]
         /\ UNCHANGED <<pc, df, rels_df>>
    ELSE IF returns_early(buf, ld.cache)
    THEN /\ lemma_cache' = ld.cache
         /\ connOpen' = (conn \/ ld.queried)
         /\ subtitles_data' = buf
         /\ store' = st
         /\ snapshot' = st
         /\ hist' = [h EXCEPT !.outcome = "returned", !.preCache = ld.cache]
         /\ UNCHANGED <<pc, df, rels_df>>
    ELSE /\ lemma_cache' = ld.cache
         /\ connOpen' = TRUE
         /\ subtitles_data' = buf
         /\ store' = st
         /\ snapshot' = st
         /\ df' = MakeDf(buf)
         /\ pc' = "lemmas"
         /\ hist' = [h EXCEPT !.preCache = ld.cache,
                              !.lemmatized = TRUE,
                              !.seen = hist.seen \cup all_lemmas_in_batch(MakeDf(buf))]
         /\ UNCHANGED rels_df

(* flush_batch *)
FlushBatch ==
    /\ pc = "idle"
    /\ ProcessEnter("flush", subtitles_data, store, connOpen, <<>>)

(* atomic_exit that commits whatever was written, exception or not *)
atomic_exit_commits(exc, snap, working) == working

(* db.atomic().__exit__: roll back on an exception, commit otherwise *)
atomic_exit(exc, snap, working) == IF exc THEN snap ELSE working

(* Leaving the with block, then except (log, re-raise) and finally          *)
(* (subtitles_data.clear()).                                                *)
ProcessExit(exc, working, step) ==
    /\ store' = atomic_exit(exc, snapshot, working)
    /\ snapshot' = store'
    /\ subtitles_data' = <<>>
    /\ df' = <<>>
    /\ rels_df' = <<>>
    /\ pc' = "idle"
    /\ hist' = [hist EXCEPT !.outcome = IF exc THEN "raised" ELSE "returned",
                            !.failedAt = step, !.frame = df]
    /\ UNCHANGED connOpen

----------------------------------------------------------------------------
(* Lines 124-135: identify and insert new lemmas, merge them into the cache *)

(* The orders in which a Python set of texts can be iterated *)
Orders(S) == {f \in [1..Cardinality(S) -> S] : \A x \in S : \E i \in DOMAIN f : f[i] = x}

(* The row INSERT INTO lemma (text, frequency) builds from {'text': t}:    *)
(* frequency takes its default 0, definition and card_subtitle get no      *)
(* value, that is NULL.                                                    *)
LemmaRecord(id, t) ==
    [id |-> id, text |-> t, frequency |-> 0, definition |-> NoText,
     card_subtitle |-> NULL]

(* LemmaNotNull with a nullable definition column *)
LemmaNotNull_definition_nullable(row) == row.text # NoText

(* Column constraints of the lemma table (models.py 19-25): text is        *)
(* CharField(unique=True), definition is TextField() and so NOT NULL.      *)
LemmaNotNull(row) == row.text # NoText /\ row.definition # NoText

LemmaUnique(rows) == \A a, b \in rows : a.text = b.text => a = b

(* Lemma.insert_many(records).execute(): [ok, store]; ok = FALSE is the    *)
(* IntegrityError of a violated constraint.                                *)
insert_many_lemma(st, order) ==
    LET base == NextId(st.lemma)
        rows == {LemmaRecord(base + i - 1, order[i]) : i \in DOMAIN order}
        all == st.lemma \cup rows
    IN [ok |-> (\A r \in rows : LemmaNotNull(r)) /\ LemmaUnique(all),
        store |-> [st EXCEPT !.lemma = all]]

(* Lemma.select().where(Lemma.text.in_(new)) merged into the cache *)
MergeCache(cache, st, new) ==
    LET newly_added == {l \in st.lemma : l.text \in new} IN
    [cache EXCEPT !.ids =
        [t \in (DOMAIN cache.ids) \cup {l.text : l \in newly_added} |->
            IF \E l \in newly_added : l.text = t
            THEN (CHOOSE l \in newly_added : l.text = t).id
            ELSE cache.ids[t]]]

StepLemmas ==
    /\ pc = "lemmas"
    /\ LET new_lemma_texts == all_lemmas_in_batch(df) \ DOMAIN lemma_cache.ids IN
       IF new_lemma_texts = {}
       THEN /\ pc' = "subtitles"
            /\ UNCHANGED <<subtitles_data, lemma_cache, store, snapshot, connOpen,
                           df, rels_df, hist>>
       ELSE \E order \in Orders(new_lemma_texts) :
              LET ins == insert_many_lemma(store, order) IN
              IF ins.ok
              THEN /\ store' = ins.store
                   /\ lemma_cache' = MergeCache(lemma_cache, ins.store, new_lemma_texts)
                   /\ pc' = "subtitles"
                   /\ UNCHANGED <<subtitles_data, snapshot, connOpen, df, rels_df, hist>>
              ELSE /\ ProcessExit(TRUE, store, "lemmas")
                   /\ UNCHANGED lemma_cache

----------------------------------------------------------------------------
(* Lines 137-163: insert the subtitles, resolve their ids by natural key *)

(* The row Subtitle.insert_many stores for frame row i: IntegerField       *)
(* columns keep int(value) of the buffered offsets.                        *)
SubtitleRecord(id, seg) ==
    [id |-> id, text |-> seg.text, episode_number |-> seg.episode_number,
     starts_at |-> IntegerFieldAdapt(seg.starts_at),
     ends_at |-> IntegerFieldAdapt(seg.ends_at)]

insert_many_subtitle(st, frame) ==
    LET base == NextId(st.subtitle) IN
    [st EXCEPT !.subtitle =
        st.subtitle \cup {SubtitleRecord(base + i - 1, frame[i].seg) : i \in DOMAIN frame}]

(* A stored key (text, episode, starts_at, ends_at) equals the key built   *)
(* from a frame row when the texts and episodes agree and the stored whole *)
(* seconds equal the buffered offsets (1 == 1.0, 0 # 0.5).                 *)
KeyMatches(s, seg) ==
    /\ s.text = seg.text
    /\ s.episode_number = seg.episode_number
    /\ s.starts_at * 1000 = seg.starts_at
    /\ s.ends_at * 1000 = seg.ends_at

(* sub_id_map.get(key): the dict comprehension runs over the fetched rows  *)
(* in rowid order, so of several rows with one key the last (highest id)   *)
(* stays; None when no key matches.                                        *)
sub_id_map_get(st, frame, seg) ==
    LET fetched_subs == {s \in st.subtitle :
                            \E i \in DOMAIN frame : s.text = frame[i].seg.text}
        hits == {s.id : s \in {x \in fetched_subs : KeyMatches(x, seg)}}
    IN IF hits = {} THEN NULL ELSE MaxOf(hits)

(* Line 141: `if not sub_records: return` leaves the with block normally *)
StepSubtitles ==
    /\ pc = "subtitles"
    /\ IF df = <<>>
       THEN /\ ProcessExit(FALSE, store, "none")
            /\ UNCHANGED lemma_cache
       ELSE /\ LET st == insert_many_subtitle(store, df) IN
               /\ store' = st
               /\ df' = [i \in DOMAIN df |->
                            [df[i] EXCEPT !.subtitle_id = sub_id_map_get(st, df, df[i].seg)]]
            /\ pc' = "relations"
            /\ UNCHANGED <<subtitles_data, lemma_cache, snapshot, connOpen, rels_df, hist>>

----------------------------------------------------------------------------
(* Lines 165-174: build and insert the relation rows *)

(* df.explode('lemmas').dropna(subset=['lemmas', 'subtitle_id']) with the  *)
(* lemma_id column mapped through the cache: one entry per lemma           *)
(* occurrence of every frame row whose subtitle id was resolved.           *)
MakeRels(frame, cache) ==
    Flatten([i \in DOMAIN frame |->
        IF frame[i].subtitle_id = NULL
        THEN <<>>
        ELSE [j \in DOMAIN frame[i].lemmas |->
                 [subtitle |-> frame[i].subtitle_id,
                  lemma |-> cache.ids[frame[i].lemmas[j]]]]])

(* How many entries of rels carry lemma id *)
RECURSIVE CountLemma(_, _)
CountLemma(rels, id) ==
    IF rels = <<>> THEN 0
    ELSE (IF rels[1].lemma = id THEN 1 ELSE 0) + CountLemma(Tail(rels), id)

(* increment_frequency with the trigger never firing *)
increment_frequency_missing(st, rels) == st

(* Trigger increment_frequency, fired once per inserted relation row:      *)
(* UPDATE lemma SET frequency = frequency + 1 WHERE id = NEW.lemma_id      *)
increment_frequency(st, rels) ==
    IF st.triggers
    THEN [st EXCEPT !.lemma =
             {[l EXCEPT !.frequency = l.frequency + CountLemma(rels, l.id)] : l \in st.lemma}]
    ELSE st

(* CompositeKey("subtitle", "lemma"): no two relation rows with one pair *)
RelsUnique(st, rels) ==
    /\ \A i, j \in DOMAIN rels : rels[i] = rels[j] => i = j
    /\ \A i \in DOMAIN rels : rels[i] \notin st.subtitlelemma

(* SubtitleLemma.insert_many(rels).execute(): [ok, store]; foreign keys    *)
(* are not enforced (SqliteDatabase opened without the foreign_keys pragma)*)
insert_many_subtitlelemma(st, rels) ==
    [ok |-> RelsUnique(st, rels),
     store |-> increment_frequency(
                  [st EXCEPT !.subtitlelemma = st.subtitlelemma \cup Range(rels)], rels)]

StepRelations ==
    /\ pc = "relations"
    /\ LET rels == MakeRels(df, lemma_cache) IN
       IF rels = <<>>
       THEN /\ rels_df' = rels
            /\ pc' = "cards"
            /\ UNCHANGED <<subtitles_data, lemma_cache, store, snapshot, connOpen, df, hist>>
       ELSE LET ins == insert_many_subtitlelemma(store, rels) IN
            IF ins.ok
            THEN /\ store' = ins.store
                 /\ rels_df' = rels
                 /\ pc' = "cards"
                 /\ UNCHANGED <<subtitles_data, lemma_cache, snapshot, connOpen, df, hist>>
            ELSE /\ ProcessExit(TRUE, store, "relations")
                 /\ UNCHANGED lemma_cache

----------------------------------------------------------------------------
(* Lines 176-191: choose a card subtitle for every lemma of the batch *)

(* associated_subtitles that forgets to group by lemma *)
associated_subtitles_ungrouped(rels, lemma_id) ==
    {rels[i].subtitle : i \in DOMAIN rels}

(* lemma_to_subtitles_map.get(lemma_id): the subtitle ids of the relation  *)
(* rows of this flush that carry lemma_id                                  *)
associated_subtitles(rels, lemma_id) ==
    {rels[i].subtitle : i \in {k \in DOMAIN rels : rels[k].lemma = lemma_id}}

(* Lemma.bulk_update(lemmas_to_update, fields=[Lemma.card_subtitle]):      *)
(* UPDATE lemma SET card_subtitle_id = CASE id ... END WHERE id IN (...)   *)
bulk_update_card(st, choice) ==
    [st EXCEPT !.lemma =
        {IF l.id \in DOMAIN choice THEN [l EXCEPT !.card_subtitle = choice[l.id]] ELSE l :
            l \in st.lemma}]

(* rels_df.groupby('lemma_id') raises KeyError when rels_df is empty: the  *)
(* lemma_id column is only added under `if not rels_df.empty`.             *)
StepCards ==
    /\ pc = "cards"
    /\ IF rels_df = <<>>
       THEN /\ ProcessExit(TRUE, store, "cards")
            /\ UNCHANGED lemma_cache
       ELSE LET lemmas_in_batch_ids ==
                    {lemma_cache.ids[t] : t \in all_lemmas_in_batch(df)}
                lemmas_to_update ==
                    {id \in lemmas_in_batch_ids : associated_subtitles(rels_df, id) # {}}
            IN \E choice \in [lemmas_to_update -> {rels_df[i].subtitle : i \in DOMAIN rels_df}] :
                 /\ \A id \in lemmas_to_update :
                        choice[id] \in associated_subtitles(rels_df, id)
                 /\ ProcessExit(FALSE, bulk_update_card(store, choice), "none")
                 /\ UNCHANGED lemma_cache

----------------------------------------------------------------------------
(* process_subtitles: reset_db, parse, add every segment, flush_batch *)

(* An SRT block as parse_srt_file returns it (the file is taken to exist;  *)
(* a missing file ends the process). Start and end are whole milliseconds  *)
(* in the file, srt_time_to_seconds turns them into seconds (here ticks).  *)
SrtTexts == {"chat", "chat chien"}
SrtStarts == {0, 500}
SrtEnds == {1000}
SrtBlocks == [text : SrtTexts, start : SrtStarts, end : SrtEnds]

srt_time_to_seconds(ms) == ms * 10

(* int(stem) if stem.isnumeric() else 0 *)
Stems == {"1"}
episode_of(stem) == IF stem = "1" THEN 1 ELSE 0

SourcesUpTo(n) == UNION {[1..k -> SrtBlocks] : k \in 0..n}

SourceSegments(stem, blocks) ==
    [i \in DOMAIN blocks |->
        Segment(blocks[i].text, episode_of(stem),
                srt_time_to_seconds(blocks[i].start), srt_time_to_seconds(blocks[i].end))]

ProcessSubtitles(stem, blocks) ==
    /\ pc = "idle"
    /\ Len(subtitles_data) + Len(blocks) <= MaxBuf
    /\ Cardinality(store.subtitle) + Len(subtitles_data) + Len(blocks) <= MaxRows
    /\ LET r == reset_db(store, connOpen)
           segs == SourceSegments(stem, blocks)
       IN ProcessEnter("process_subtitles", subtitles_data \o segs, r.store, r.connOpen, segs)

----------------------------------------------------------------------------

Next ==
    \/ \E text \in Texts, episode \in Episodes, start \in StartTicks, end \in EndTicks :
          Add(text, episode, start, end)
    \/ FlushBatch
    \/ ResetDb
    \/ \E stem \in Stems, blocks \in SourcesUpTo(MaxSource) : ProcessSubtitles(stem, blocks)
    \/ StepLemmas
    \/ StepSubtitles
    \/ StepRelations
    \/ StepCards

Spec == Init /\ [][Next]_vars

----------------------------------------------------------------------------
(* Observations shared by the properties below *)

Idle == pc = "idle"

(* The last operation was a flush (directly or inside process_subtitles)   *)
(* and it has ended                                                        *)
FlushEnded == Idle /\ hist.op \in {"flush", "process_subtitles"} /\ hist.outcome # "none"

(* ... by raising from inside the commit sequence (the with db.atomic()    *)
(* block)                                                                  *)
FlushFailedInCommit ==
    FlushEnded /\ hist.outcome = "raised" /\ hist.failedAt \in {"lemmas", "relations", "cards"}

(* ... by committing a non-empty batch *)
FlushCommitted == FlushEnded /\ hist.outcome = "returned" /\ hist.batch # <<>>

RelationCount(st, lemma_id) == Cardinality({r \in st.subtitlelemma : r.lemma = lemma_id})

----------------------------------------------------------------------------
(* C1: in every state the connection can see, and so after any sequence of *)
(* add, flush (committed or rolled back) and reset, every Lemma row's      *)
(* frequency equals the number of SubtitleLemma rows carrying its id.      *)
C1_FrequencyEqualsRelationCount ==
    \A l \in store.lemma : l.frequency = RelationCount(store, l.id)

(* A committed flush has raised the frequency of a lemma *)
C1_Witness ==
    /\ FlushCommitted
    /\ \E l \in store.lemma : \E o \in hist.preStore.lemma :
          o.id = l.id /\ l.frequency > o.frequency

(* C2: when a flush has raised from inside its commit sequence, the store  *)
(* is exactly the store the flush started on.                              *)
C2_FailedFlushRestoresStore ==
    FlushFailedInCommit => store = hist.preStore

(* The relation insert failed after the batch's Subtitle rows were written *)
C2_Witness ==
    /\ FlushFailedInCommit
    /\ hist.failedAt = "relations"
    /\ hist.batch # <<>>

----------------------------------------------------------------------------
(* C4: between operations, every entry text -> id of the loaded cache has  *)
(* a Lemma row with that id and that text, and every SubtitleLemma row     *)
(* carries a lemma id that is in the cache and in the Lemma table.         *)
C4_CacheIsProjectionOfLemmaTable ==
    (Idle /\ lemma_cache.loaded) =>
        /\ \A t \in DOMAIN lemma_cache.ids :
              \E l \in store.lemma : l.id = lemma_cache.ids[t] /\ l.text = t
        /\ \A r \in store.subtitlelemma :
              /\ \E t \in DOMAIN lemma_cache.ids : lemma_cache.ids[t] = r.lemma
              /\ \E l \in store.lemma : l.id = r.lemma

(* C5: in every state the connection can see, and so after any flush, a    *)
(* Lemma row whose card_subtitle is set has a SubtitleLemma row linking    *)
(* that subtitle id and the lemma's id.                                    *)
C5_CardSubtitleIsLinked ==
    \A l \in store.lemma :
        l.card_subtitle # NULL =>
            [subtitle |-> l.card_subtitle, lemma |-> l.id] \in store.subtitlelemma

(* A committed flush has set a lemma's card_subtitle to a Subtitle row it  *)
(* inserted itself                                                         *)
C5_Witness ==
    /\ FlushCommitted
    /\ \E l \in store.lemma :
          /\ l.card_subtitle # NULL
          /\ l.card_subtitle \notin {s.id : s \in hist.preStore.subtitle}

(* C6: no two Lemma rows share a text, and once the cache is loaded the id *)
(* it holds for a text is the id of the stored row with that text.         *)
C6_LemmaTextHasOneId ==
    /\ \A a, b \in store.lemma : a.text = b.text => a.id = b.id
    /\ lemma_cache.loaded =>
          \A l \in store.lemma :
              l.text \in DOMAIN lemma_cache.ids => lemma_cache.ids[l.text] = l.id

(* A committed flush on a store holding several Lemma rows has resolved a  *)
(* lemma text through the cache and raised that row's frequency to 2       *)
C6_Witness ==
    /\ FlushCommitted
    /\ Cardinality(store.lemma) >= 2
    /\ \E l \in store.lemma : l.text \in DOMAIN lemma_cache.ids /\ l.frequency >= 2

(* C7: after each flush, the keys of the loaded cache contain every lemma  *)
(* text the lemmatizer has produced in any flush so far.                   *)
C7_CacheKeysCoverSeenLemmas ==
    (FlushEnded /\ lemma_cache.loaded) => hist.seen \subseteq DOMAIN lemma_cache.ids

(* C8: after the first and after the second of two successive reset()      *)
(* calls the store is schema-valid, has its frequency triggers and holds   *)
(* no row.                                                                 *)
C8_ResetTwiceEmptyEachTime ==
    (Idle /\ hist.op = "reset" /\ hist.resets \in {1, 2}) =>
        /\ store.schema /\ store.triggers
        /\ Cardinality(store.subtitle) + Cardinality(store.lemma)
              + Cardinality(store.subtitlelemma) = 0

(* C9: when reset() has returned, whatever ran before it, the three tables *)
(* are empty.                                                              *)
C9_ResetEmptiesTables ==
    (Idle /\ hist.op = "reset") =>
        store.subtitle = {} /\ store.lemma = {} /\ store.subtitlelemma = {}

(* C10: when process_subtitles(source) has returned, the Subtitle table    *)
(* holds exactly one row per parsed segment, each row being that segment   *)
(* as stored, every relation row belongs to one of these rows and every    *)
(* Lemma row is a lemma of one of the segments.                            *)
C10_StoreHoldsOnlyTheSource ==
    (Idle /\ hist.op = "process_subtitles" /\ hist.outcome = "returned") =>
        /\ Cardinality(store.subtitle) = Len(hist.source)
        /\ \A s \in store.subtitle :
              \E i \in DOMAIN hist.source : s = SubtitleRecord(s.id, hist.source[i])
        /\ \A r \in store.subtitlelemma : \E s \in store.subtitle : s.id = r.subtitle
        /\ \A l \in store.lemma : l.text \in all_lemmas_in_batch(MakeDf(hist.source))

----------------------------------------------------------------------------
(* Observations on the batch of the last flush *)

(* What another connection to the SQLite file reads: the last committed    *)
(* state. Everything process() writes, it writes inside `with db.atomic()`, *)
(* and SQLite shows an open transaction's writes to no other connection.   *)
ReaderView_autocommit == store

ReaderView == snapshot

(* The lemmas the lemmatizer returns for one buffered segment *)
LemmasOf(seg) == Range(Lemmatize(seg.text))

BatchLemmas == all_lemmas_in_batch(MakeDf(hist.batch))

(* The id of the Subtitle row insert_many stores for the batch's i-th segment *)
RowOf(i) == NextId(hist.preStore.subtitle) + i - 1

(* The batch positions whose segment contains lemma text t *)
SegmentsWith(t) == {i \in DOMAIN hist.batch : t \in LemmasOf(hist.batch[i])}

HasNoRows(st) == st.subtitle = {} /\ st.lemma = {} /\ st.subtitlelemma = {}

DistinctKeys(buf) == \A i, j \in DOMAIN buf : buf[i] = buf[j] => i = j

(* The relation rows the last flush added *)
NewRelations == store.subtitlelemma \ hist.preStore.subtitlelemma

----------------------------------------------------------------------------
(* C11: a flush of N segments with pairwise different keys on a store with *)
(* empty tables commits: N Subtitle rows, one Lemma row per distinct lemma *)
(* of the batch, one SubtitleLemma row per (segment, lemma in it) pair,    *)
(* each lemma's frequency the number of batch segments containing it and   *)
(* its card_subtitle one of those segments' rows.                          *)
C11_FlushOnEmptyStoreCommits ==
    (/\ FlushEnded
     /\ hist.preStore.schema
     /\ HasNoRows(hist.preStore)
     /\ hist.batch # <<>>
     /\ DistinctKeys(hist.batch)) =>
        /\ hist.outcome = "returned"
        /\ Cardinality(store.subtitle) = Len(hist.batch)
        /\ {l.text : l \in store.lemma} = BatchLemmas
        /\ Cardinality(store.lemma) = Cardinality(BatchLemmas)
        /\ \A l \in store.lemma :
              /\ l.frequency = Cardinality(SegmentsWith(l.text))
              /\ l.card_subtitle \in {RowOf(i) : i \in SegmentsWith(l.text)}
              /\ \A i \in SegmentsWith(l.text) :
                    [subtitle |-> RowOf(i), lemma |-> l.id] \in store.subtitlelemma
        /\ Cardinality(store.subtitlelemma) =
              Cardinality({<<i, t>> \in (DOMAIN hist.batch) \X BatchLemmas :
                              i \in SegmentsWith(t)})

(* C12: a flush of the very segments the committed flush before it held    *)
(* commits too; it adds no Lemma row, one Subtitle row per segment, one    *)
(* SubtitleLemma row per (segment, lemma) pair linked to the segment's new *)
(* Subtitle row, and raises each lemma's frequency by the number of its    *)
(* new relation rows.                                                      *)
C12_RepeatedBatchAddsRowsNotLemmas ==
    (FlushEnded /\ hist.prev # <<>> /\ hist.batch = hist.prev) =>
        /\ hist.outcome = "returned"
        /\ {l.id : l \in store.lemma} = {l.id : l \in hist.preStore.lemma}
        /\ store.subtitle = hist.preStore.subtitle
              \cup {SubtitleRecord(RowOf(i), hist.batch[i]) : i \in DOMAIN hist.batch}
        /\ Cardinality(store.subtitle) =
              Cardinality(hist.preStore.subtitle) + Len(hist.batch)
        /\ \A i \in DOMAIN hist.batch : \A t \in LemmasOf(hist.batch[i]) :
              \E l \in store.lemma :
                  l.text = t /\ [subtitle |-> RowOf(i), lemma |-> l.id] \in NewRelations
        /\ Cardinality(NewRelations) =
              Cardinality({<<i, t>> \in (DOMAIN hist.batch) \X BatchLemmas :
                              i \in SegmentsWith(t)})
        /\ \A l \in store.lemma : \E o \in hist.preStore.lemma :
              /\ o.id = l.id
              /\ l.frequency =
                    o.frequency + Cardinality({r \in NewRelations : r.lemma = l.id})

(* C13: whenever a flush has returned or raised, for whatever cause, the   *)
(* accumulator buffer is empty.                                            *)
C13_BufferEmptyAfterFlush ==
    FlushEnded => subtitles_data = <<>>

(* C14: a flush that finds the cache unloaded and no Lemma table raises    *)
(* from the load, leaves the store as it was and the cache unloaded.       *)
C14_CacheLoadFailureRaises ==
    (FlushEnded /\ ~hist.entryCache.loaded /\ ~hist.preStore.schema) =>
        /\ hist.outcome = "raised"
        /\ hist.failedAt = "load"
        /\ store = hist.preStore
        /\ ~lemma_cache.loaded

(* A flush of buffered segments has raised from the cache load *)
C14_Witness ==
    /\ FlushEnded
    /\ hist.failedAt = "load"
    /\ hist.batch # <<>>

(* C15: while a flush runs another connection reads the store the flush    *)
(* started on; when the flush has raised it still reads that store, when   *)
(* it has committed it reads the store with all of the flush's writes.     *)
C15_ReaderSeesPreOrPostState ==
    /\ ~Idle => ReaderView = hist.preStore
    /\ (FlushEnded /\ hist.outcome = "raised") => ReaderView = hist.preStore
    /\ FlushCommitted => ReaderView = store

(* A flush stands before its card update with the Subtitle and relation    *)
(* rows written but not committed                                          *)
C15_Witness ==
    /\ pc = "cards"
    /\ store.subtitle # hist.preStore.subtitle
    /\ store.subtitlelemma # hist.preStore.subtitlelemma
    /\ store.lemma # hist.preStore.lemma

(* C16 as stated: a flush with an empty buffer returns, changes no row,    *)
(* does not call the lemmatizer and leaves a loaded cache as it was.       *)
C16_EmptyFlushReturnsWithoutEffect ==
    (FlushEnded /\ hist.batch = <<>>) =>
        /\ hist.outcome = "returned"
        /\ store = hist.preStore
        /\ ~hist.lemmatized
        /\ hist.entryCache.loaded => lemma_cache = hist.entryCache

(* C16, amended: a flush with an empty buffer whose cache load does not    *)
(* fail returns, changes no row, does not call the lemmatizer, leaves a    *)
(* loaded cache as it was and hydrates an unloaded one from the Lemma      *)
(* table; when the cache load fails it raises.                             *)
C16_EmptyFlushWithoutLoadFailure ==
    (FlushEnded /\ hist.batch = <<>>) =>
        IF hist.failedAt = "load"
        THEN hist.outcome = "raised" /\ ~hist.entryCache.loaded /\ ~hist.preStore.schema
        ELSE /\ hist.outcome = "returned"
             /\ store = hist.preStore
             /\ ~hist.lemmatized
             /\ lemma_cache = IF hist.entryCache.loaded
                              THEN hist.entryCache
                              ELSE LoadCache(hist.preStore)

(* A flush with an empty buffer has returned on a store that holds rows,   *)
(* with the cache loaded before it                                         *)
C16_Witness ==
    /\ FlushEnded
    /\ hist.batch = <<>>
    /\ hist.outcome = "returned"
    /\ hist.entryCache.loaded
    /\ store.subtitle # {}

(* C17: the cache is hydrated from the Lemma table at most once in the     *)
(* life of the process, and a flush that finds it loaded goes on with it   *)
(* as it is.                                                               *)
C17_CacheHydratedOnce ==
    /\ hist.loads <= 1
    /\ (hist.op \in {"flush", "process_subtitles"} /\ hist.entryCache.loaded) =>
          /\ hist.loads = 1
          /\ hist.outcome # "none" => hist.preCache = hist.entryCache

(* A flush has run with the loaded cache although the Lemma table no       *)
(* longer holds the rows the cache was built from                          *)
C17_Witness ==
    /\ FlushEnded
    /\ hist.entryCache.loaded
    /\ hist.entryCache.ids # <<>>
    /\ hist.preStore.lemma = {}
    /\ lemma_cache = hist.entryCache

(* C18: in a committed flush every segment for which relation rows were    *)
(* built got the id of the Subtitle row inserted for its own position.     *)
C18_RelationsLinkPositionalRow ==
    FlushCommitted =>
        \A i \in DOMAIN hist.frame :
            (hist.frame[i].lemmas # <<>> /\ hist.frame[i].subtitle_id # NULL) =>
                hist.frame[i].subtitle_id = RowOf(i)

(* C19: after a committed flush, every segment of the batch and every      *)
(* lemma of it are linked by a SubtitleLemma row of the segment's own      *)
(* Subtitle row and the lemma's row.                                       *)
C19_EverySegmentLemmaPairLinked ==
    FlushCommitted =>
        \A i \in DOMAIN hist.batch : \A t \in LemmasOf(hist.batch[i]) :
            \E l \in store.lemma :
                l.text = t /\ [subtitle |-> RowOf(i), lemma |-> l.id] \in store.subtitlelemma

(* C20: after a committed flush, the Subtitle row stored for each segment  *)
(* carries the buffered (millisecond-rounded) offsets, so the key built    *)
(* from the segment equals the key read back from its row.                 *)
C20_StoredOffsetsEqualBuffered ==
    FlushCommitted =>
        \A i \in DOMAIN hist.batch :
            \E s \in store.subtitle : s.id = RowOf(i) /\ KeyMatches(s, hist.batch[i])

----------------------------------------------------------------------------
(* Observations on the lemmas of the last flush *)

(* The batch's lemma texts that the cache did not hold when the commit     *)
(* sequence was entered: new_lemma_texts of line 126                        *)
NewLemmaTexts == BatchLemmas \ DOMAIN hist.preCache.ids

(* The lemmatizer's output for the segment names one lemma more than once *)
HasRepeatedLemma(seg) ==
    LET lem == Lemmatize(seg.text) IN
    \E j, k \in DOMAIN lem : j # k /\ lem[j] = lem[k]

----------------------------------------------------------------------------
(* C21: after a committed flush, every lemma of the batch has as its       *)
(* card_subtitle a Subtitle row this flush inserted, linked to the lemma   *)
(* by a relation row of this flush; every other Lemma row keeps the        *)
(* card_subtitle it had.                                                   *)
C21_BatchLemmasGetCardOfThisFlush ==
    FlushCommitted =>
        /\ \A t \in BatchLemmas : \E l \in store.lemma :
              /\ l.text = t
              /\ l.card_subtitle \in {RowOf(i) : i \in DOMAIN hist.batch}
              /\ [subtitle |-> l.card_subtitle, lemma |-> l.id] \in NewRelations
        /\ \A l \in store.lemma :
              l.text \notin BatchLemmas =>
                  \E o \in hist.preStore.lemma :
                      o.id = l.id /\ o.card_subtitle = l.card_subtitle

(* C22: when a flush meets lemma texts the cache does not hold, the insert *)
(* of their rows does not raise, and right after it the Lemma table holds, *)
(* for each of them, a row with frequency 0, no definition and no          *)
(* card_subtitle.                                                          *)
C22_NewLemmaInsertSucceeds ==
    (/\ hist.op \in {"flush", "process_subtitles"}
     /\ hist.lemmatized
     /\ NewLemmaTexts # {}) =>
        /\ hist.failedAt # "lemmas"
        /\ pc = "subtitles" =>
              \A t \in NewLemmaTexts : \E l \in store.lemma :
                  /\ l.text = t
                  /\ l.frequency = 0
                  /\ l.definition = NoText
                  /\ l.card_subtitle = NULL

(* C23: a flush whose batch has a segment with one lemma more than once    *)
(* in its lemmatizer output, all of the batch's lemmas being in the cache  *)
(* and in the Lemma table already, commits; the segment's row and that     *)
(* lemma are linked by a relation row, and the lemma's frequency went up   *)
(* by the number of its new relation rows.                                 *)
C23_RepeatedLemmaInSegmentCommits ==
    (/\ FlushEnded
     /\ hist.lemmatized
     /\ NewLemmaTexts = {}
     /\ BatchLemmas \subseteq {l.text : l \in hist.preStore.lemma}
     /\ \E i \in DOMAIN hist.batch : HasRepeatedLemma(hist.batch[i])) =>
        /\ hist.outcome = "returned"
        /\ \A i \in DOMAIN hist.batch :
              HasRepeatedLemma(hist.batch[i]) =>
                  \A t \in LemmasOf(hist.batch[i]) :
                      \E l \in store.lemma : \E o \in hist.preStore.lemma :
                          /\ l.text = t
                          /\ o.id = l.id
                          /\ [subtitle |-> RowOf(i), lemma |-> l.id] \in NewRelations
                          /\ l.frequency = o.frequency
                                + Cardinality({r \in NewRelations : r.lemma = l.id})

(* C24: the loaded cache never maps two different lemma texts to one id,   *)
(* and the relation rows a committed flush adds carry, for each Lemma row  *)
(* they reach, the id the cache holds for that row's own text.             *)
C24_CacheIsInjective ==
    /\ lemma_cache.loaded =>
          \A t, u \in DOMAIN lemma_cache.ids :
              lemma_cache.ids[t] = lemma_cache.ids[u] => t = u
    /\ FlushCommitted =>
          \A r \in NewRelations : \A l \in store.lemma :
              l.id = r.lemma =>
                  l.text \in BatchLemmas /\ lemma_cache.ids[l.text] = l.id

(* A committed flush has written relation rows for two lemma texts, each   *)
(* row carrying the id of a stored Lemma row                               *)
C24_Witness ==
    /\ FlushCommitted
    /\ Cardinality(DOMAIN lemma_cache.ids) >= 2
    /\ Cardinality({r.lemma : r \in NewRelations}) >= 2
    /\ \A r \in NewRelations : \E l \in store.lemma : l.id = r.lemma

====
